---------------------------- MODULE Spec2Model ----------------------------
(***************************************************************************)
(* Newsletter backend: subscribe / unsubscribe / check-subscription and    *)
(* the publish-and-fan-out workflow, in its two variants                   *)
(*   impl = "index"   : src/index.js                                       *)
(*   impl = "part000" : src/unnamed/part_000                               *)
(* A request handler is an async function: the code between two awaits is  *)
(* one atomic step, and the awaited store operation takes effect at the    *)
(* start of the step that resumes the handler.                             *)
(***************************************************************************)
EXTENDS Integers, Sequences, FiniteSets, TLC

(* ------------------------------ bounds --------------------------------- *)
\* Number of requests that may be in progress at the same time.
MaxCalls == 2
\* Cap on the number of stored posts.
MaxPosts == 1
\* Cap on the number of uploaded files.
MaxUploads == 1
\* Cap on the number of stored posts when publish calls run concurrently.
MaxConcurrentPosts == 2

(* --------------------------- configuration ----------------------------- *)
\* process.env.PUBLISH_SECRET / ADMIN_EMAIL (required non-empty at startup)
PUBLISH_SECRET == "s3cret"
ADMIN_EMAIL == <<"o", "@", "p", ".", "q">>
\* A JavaScript undefined (absent header, absent body field)
Undefined == "undefined"
\* The JavaScript booleans a JSON body can carry (a multipart body carries
\* strings only); they are equal to no string
JsTrue == "boolean true"
JsFalse == "boolean false"

(* ------------------------------ normEmail ------------------------------ *)
Whitespace == {" ", "\t", "\n"}

UpperToLower ==
  [ch \in {"A", "B", "C", "X", "Y", "Z"} |->
     CASE ch = "A" -> "a" [] ch = "B" -> "b" [] ch = "C" -> "c"
       [] ch = "X" -> "x" [] ch = "Y" -> "y" [] ch = "Z" -> "z"]

toLowerCase(s) ==
  [i \in 1..Len(s) |-> IF s[i] \in DOMAIN UpperToLower THEN UpperToLower[s[i]] ELSE s[i]]

RECURSIVE trimStart(_)
trimStart(s) ==
  IF s # <<>> /\ Head(s) \in Whitespace THEN trimStart(Tail(s)) ELSE s

RECURSIVE trimEnd(_)
trimEnd(s) ==
  IF s # <<>> /\ s[Len(s)] \in Whitespace THEN trimEnd(SubSeq(s, 1, Len(s) - 1)) ELSE s

trim(s) == trimEnd(trimStart(s))

\* (variant: the case is kept)
normEmailKeepCase(e) == trim(e)

normEmail(e) == toLowerCase(trim(e))

includes(s, ch) == \E i \in 1..Len(s) : s[i] = ch

\* The format check of POST /subscribe (and /check-subscription)
validEmailFormat(i, email) ==
  IF i = "index"
    THEN includes(email, "@")
    ELSE includes(email, "@") /\ includes(email, ".") /\ Len(email) >= 5

(* ------------------------------- inputs -------------------------------- *)
\* req.body.email values; <<>> is a missing email (req.body.email || '')
RawEmails ==
  { <<" ", " ", "A", "@", "B", ".", "c", "o", "m", " ">>,
    <<"a", "@", "b", ".", "c", "o", "m">>,
    <<"x", "@", "y", ".", "i", "o">>,
    <<>> }

\* req.body.email values around the format check: no '@', no '.', fewer than
\* 5 characters (with and without padding), and the shortest accepted form
ValidationEmails ==
  { <<"a", "b", ".", "c", "d">>,
    <<"a", "b", "@", "c", "d">>,
    <<"a", "@", ".", "b">>,
    <<" ", "A", "@", "B", " ", " ">>,
    <<"a", "@", "b", ".", "c">>,
    <<>> }

(* ------------------------------- state --------------------------------- *)
VARIABLES
  impl,         \* which variant of the server is running
  subscribers,  \* Subscriber collection, in insertion order
  posts,        \* Post collection, in insertion order
  uploads,      \* number of files multer has written to UPLOAD_DIR
  calls         \* the request handlers in progress, one per slot

vars == <<impl, subscribers, posts, uploads, calls>>

Slots == 1..MaxCalls
Impls == {"index", "part000"}

\* A request that has ended: answered ("done"), or left without an answer
\* by an exception thrown outside any try block ("hung").
Finished == {"idle", "done", "hung"}

NoRes ==
  [status |-> 0, success |-> FALSE, message |-> "", flag |-> "",
   sent |-> -1, total |-> -1, failed |-> -1,
   hasFailedEmails |-> FALSE, failedEmails |-> <<>>, error |-> "",
   posts |-> <<>>]

Res(status, success, message, flag) ==
  [NoRes EXCEPT !.status = status, !.success = success,
                !.message = message, !.flag = flag]

NoReq ==
  [header |-> Undefined, secret |-> Undefined, title |-> "", postUrl |-> "",
   excerpt |-> Undefined, content |-> Undefined,
   sendFull |-> Undefined, file |-> FALSE]

IdleCall ==
  [kind |-> "none", pc |-> "idle", raw |-> <<>>, email |-> <<>>, req |-> NoReq,
   subs |-> <<>>, idx |-> 0, sentCount |-> 0, failedEmails |-> <<>>,
   mails |-> <<>>, inserted |-> FALSE, removed |-> FALSE, conflict |-> "",
   deletedCount |-> -1, postIds |-> <<>>, storeFailed |-> FALSE,
   stages |-> <<>>, res |-> NoRes]

NewCall(kind, pc, raw, email) ==
  [IdleCall EXCEPT !.kind = kind, !.pc = pc, !.raw = raw, !.email = email]

\* The handler of a new request takes the first slot holding no running request.
FreeSlot(c) ==
  /\ calls[c].pc \in Finished
  /\ \A d \in Slots : d < c => calls[d].pc \notin Finished

(* ------------------------------ the stores ----------------------------- *)
\* Errors a store operation rejects with
DuplicateKeyError == [code |-> 11000, duplicate |-> TRUE]
StoreError == [code |-> 0, duplicate |-> FALSE]

\* Subscriber.findOne({ email })
findOne(store, email) == {i \in 1..Len(store) : store[i].email = email}

\* (variant: no unique index)
uniqueViolationNone(store, email) == FALSE

\* The unique index on Subscriber.email (schema: unique: true)
uniqueViolation(store, email) == findOne(store, email) # {}

\* Subscriber.deleteOne({ email }): removes the first matching record
deleteOne(store, email) ==
  IF findOne(store, email) = {} THEN store
  ELSE LET k == CHOOSE i \in findOne(store, email) :
                  \A j \in findOne(store, email) : i <= j
       IN SubSeq(store, 1, k - 1) \o SubSeq(store, k + 1, Len(store))

deletedCount(store, email) == IF findOne(store, email) = {} THEN 0 ELSE 1

\* (variant: the count leaves out the record just inserted)
countDocumentsStale(store) == IF store = <<>> THEN 0 ELSE Len(store) - 1

\* Subscriber.countDocuments()
countDocuments(store) == Len(store)

\* The numbers an administrator notification carries (-1: not in the mail)
NoCounts == [sent |-> -1, failed |-> -1, total |-> -1]

\* A mail handed to transporter.sendMail by safeSend.
\* st is what safeSend returned to its caller, transport what
\* transporter.sendMail did with the mail.
Mail(to, type) ==
  [to |-> to, type |-> type, st |-> "pending", transport |-> "none",
   body |-> <<>>, counts |-> NoCounts]

\* (variant: the catch clause reports success)
safeSendCatchTrue(accepted) == TRUE

\* safeSend: true when the transport accepted the mail, false when it threw
safeSend(accepted) == accepted

Settle(mails, i, accepted) ==
  [mails EXCEPT ![i].st = IF safeSend(accepted) THEN "ok" ELSE "fail",
                ![i].transport = IF accepted THEN "accepted" ELSE "threw"]

Pending(mails) == {i \in 1..Len(mails) : mails[i].st = "pending"}

(* ------------------------------ subscribe ------------------------------ *)
\* The "New Subscriber Joined" notification with the total read by
\* countDocuments
NewSubscriberMail(store) ==
  [Mail(ADMIN_EMAIL, "newsub") EXCEPT !.counts.total = countDocuments(store)]

\* The catch clauses of POST /subscribe
subscribeCatch(i, err) ==
  IF i = "index"
    THEN IF err.code = 11000
           THEN Res(200, TRUE, "Already subscribed", "")
           ELSE Res(500, FALSE, "Server error", "")
    ELSE IF err.code = 11000 \/ err.duplicate
           THEN Res(200, FALSE, "This email is already subscribed", "alreadySubscribed")
           ELSE Res(500, FALSE, "Server error. Please try again later.", "")

\* POST /subscribe up to the first store operation, for a body email drawn
\* from inputs
SubscribeRequest(c, inputs) ==
  /\ FreeSlot(c)
  /\ \E raw \in inputs :
       LET email == normEmail(raw) IN
       calls' = [calls EXCEPT ![c] =
         IF ~validEmailFormat(impl, email)
           THEN [NewCall("subscribe", "done", raw, email) EXCEPT !.res =
                   Res(400, FALSE,
                       IF impl = "index" THEN "Invalid email" ELSE "Invalid email format",
                       "")]
           ELSE NewCall("subscribe", IF impl = "index" THEN "create" ELSE "findOne",
                        raw, email)]
  /\ UNCHANGED <<impl, subscribers, posts, uploads>>

SubscribeBegin(c) == SubscribeRequest(c, RawEmails)

\* part000: await Subscriber.findOne({ email })
SubscribeFindOne(c) ==
  /\ impl = "part000"
  /\ calls[c].kind = "subscribe" /\ calls[c].pc = "findOne"
  /\ \E ok \in BOOLEAN :
       calls' = [calls EXCEPT ![c] =
         IF ~ok
           THEN [@ EXCEPT !.pc = "done", !.storeFailed = TRUE,
                          !.res = subscribeCatch(impl, StoreError)]
         ELSE IF findOne(subscribers, calls[c].email) # {}
           THEN [@ EXCEPT !.pc = "done", !.conflict = "findOne", !.res =
                   Res(200, FALSE, "This email is already subscribed", "alreadySubscribed")]
           ELSE [@ EXCEPT !.pc = "create"]]
  /\ UNCHANGED <<impl, subscribers, posts, uploads>>

\* (variant: a duplicate-key rejection is ignored and the handler goes on)
SubscribeCreateIgnoreDup(c) ==
  /\ calls[c].kind = "subscribe" /\ calls[c].pc = "create"
  /\ \E ok \in BOOLEAN :
       IF ~ok
         THEN /\ calls' = [calls EXCEPT ![c] =
                   [@ EXCEPT !.pc = "done", !.storeFailed = TRUE,
                             !.res = subscribeCatch(impl, StoreError)]]
              /\ UNCHANGED subscribers
         ELSE /\ subscribers' =
                   IF uniqueViolation(subscribers, calls[c].email)
                     THEN subscribers
                     ELSE Append(subscribers, [email |-> calls[c].email])
              /\ calls' = [calls EXCEPT ![c] =
                   [@ EXCEPT !.inserted = ~uniqueViolation(subscribers, calls[c].email),
                             !.conflict =
                                IF uniqueViolation(subscribers, calls[c].email)
                                  THEN "create" ELSE "",
                             !.mails = Append(@, Mail(calls[c].email, "welcome")),
                             !.pc = IF impl = "index" THEN "welcome" ELSE "count"]]
  /\ UNCHANGED <<impl, posts, uploads>>

\* await Subscriber.create({ email, name }), then the welcome mail is handed
\* to the transport (awaited in index.js, not awaited in part_000)
SubscribeCreate(c) ==
  /\ calls[c].kind = "subscribe" /\ calls[c].pc = "create"
  /\ \E ok \in BOOLEAN :
       IF ~ok
         THEN /\ calls' = [calls EXCEPT ![c] =
                   [@ EXCEPT !.pc = "done", !.storeFailed = TRUE,
                          !.res = subscribeCatch(impl, StoreError)]]
              /\ UNCHANGED subscribers
       ELSE IF uniqueViolation(subscribers, calls[c].email)
         THEN /\ calls' = [calls EXCEPT ![c] =
                   [@ EXCEPT !.pc = "done", !.conflict = "create",
                             !.res = subscribeCatch(impl, DuplicateKeyError)]]
              /\ UNCHANGED subscribers
         ELSE /\ subscribers' = Append(subscribers, [email |-> calls[c].email])
              /\ calls' = [calls EXCEPT ![c] =
                   [@ EXCEPT !.inserted = TRUE,
                             !.mails = Append(@, Mail(calls[c].email, "welcome")),
                             !.pc = IF impl = "index" THEN "welcome" ELSE "count"]]
  /\ UNCHANGED <<impl, posts, uploads>>

\* index.js: await safeSend(welcome) returns
SubscribeWelcomeReturn(c) ==
  /\ impl = "index"
  /\ calls[c].kind = "subscribe" /\ calls[c].pc = "welcome"
  /\ \E accepted \in BOOLEAN :
       calls' = [calls EXCEPT ![c] =
         [@ EXCEPT !.mails = Settle(@, Len(@), accepted), !.pc = "count"]]
  /\ UNCHANGED <<impl, subscribers, posts, uploads>>

\* await Subscriber.countDocuments() inside the admin mail template.
\* index.js: outside any try block, a rejection leaves the request unanswered.
\* part_000: inside the try block; on success the admin mail is handed to the
\* transport without waiting and the response is sent.
SubscribeCount(c) ==
  /\ calls[c].kind = "subscribe" /\ calls[c].pc = "count"
  /\ \E ok \in BOOLEAN :
       calls' = [calls EXCEPT ![c] =
         IF impl = "index"
           THEN IF ~ok
                  THEN [@ EXCEPT !.pc = "hung", !.storeFailed = TRUE]
                  ELSE [@ EXCEPT !.mails = Append(@, NewSubscriberMail(subscribers)),
                                 !.pc = "admin"]
           ELSE IF ~ok
                  THEN [@ EXCEPT !.pc = "done", !.storeFailed = TRUE,
                          !.res = subscribeCatch(impl, StoreError)]
                  ELSE [@ EXCEPT !.mails = Append(@, NewSubscriberMail(subscribers)),
                                 !.pc = "done",
                                 !.res = Res(200, TRUE, "Subscribed successfully",
                                             "newSubscriber")]]
  /\ UNCHANGED <<impl, subscribers, posts, uploads>>

\* index.js: await safeSend(admin) returns, then res.json
SubscribeAdminReturn(c) ==
  /\ impl = "index"
  /\ calls[c].kind = "subscribe" /\ calls[c].pc = "admin"
  /\ \E accepted \in BOOLEAN :
       calls' = [calls EXCEPT ![c] =
         [@ EXCEPT !.mails = Settle(@, Len(@), accepted), !.pc = "done",
                   !.res = Res(200, TRUE, "Subscribed successfully", "")]]
  /\ UNCHANGED <<impl, subscribers, posts, uploads>>

\* part_000: a send that was not awaited completes in the background
SubscribeMailSettle(c) ==
  /\ impl = "part000"
  /\ calls[c].kind = "subscribe"
  /\ \E i \in Pending(calls[c].mails), accepted \in BOOLEAN :
       calls' = [calls EXCEPT ![c] = [@ EXCEPT !.mails = Settle(@, i, accepted)]]
  /\ UNCHANGED <<impl, subscribers, posts, uploads>>

(* ----------------------------- unsubscribe ----------------------------- *)
\* POST /unsubscribe and GET /unsubscribe up to the deleteOne call.
\* (removed is history: it marks the calls whose inserted record a later
\* deleteOne has deleted.)
UnsubscribeRequest(c, inputs, kinds) ==
  /\ FreeSlot(c)
  /\ \E raw \in inputs, kind \in kinds :
       calls' = [calls EXCEPT ![c] =
         IF kind = "unsubscribeGet" /\ raw = <<>>
           THEN [NewCall(kind, "done", raw, <<>>) EXCEPT !.res =
                   Res(200, TRUE, "No email provided", "")]
           ELSE NewCall(kind, "deleteOne", raw, normEmail(raw))]
  /\ UNCHANGED <<impl, subscribers, posts, uploads>>

UnsubscribeBegin(c) ==
  UnsubscribeRequest(c, RawEmails, {"unsubscribe", "unsubscribeGet"})

\* The response once deleteOne has returned
unsubscribeResponse(i, kind, n) ==
  IF i = "index"
    THEN IF kind = "unsubscribe"
           THEN Res(200, TRUE, "Unsubscribed successfully", "")
           ELSE Res(200, TRUE, "Successfully Unsubscribed", "")
    ELSE IF kind = "unsubscribe"
           THEN IF n = 0
                  THEN Res(200, TRUE, "Email was not subscribed", "alreadyUnsubscribed")
                  ELSE Res(200, TRUE, "Unsubscribed successfully", "unsubscribed")
           ELSE IF n > 0
                  THEN Res(200, TRUE, "Successfully Unsubscribed", "")
                  ELSE Res(200, TRUE, "Already Unsubscribed", "")

UnsubscribeDelete(c) ==
  /\ calls[c].kind \in {"unsubscribe", "unsubscribeGet"} /\ calls[c].pc = "deleteOne"
  /\ \E ok \in BOOLEAN :
       IF ~ok
         THEN /\ calls' = [calls EXCEPT ![c] =
                   [@ EXCEPT !.pc = "done", !.storeFailed = TRUE, !.res =
                      IF calls[c].kind = "unsubscribe"
                        THEN Res(500, FALSE, "Server error", "")
                        ELSE Res(500, FALSE, "Error processing unsubscribe request", "")]]
              /\ UNCHANGED subscribers
         ELSE /\ subscribers' = deleteOne(subscribers, calls[c].email)
              /\ calls' = [d \in Slots |->
                   IF d = c
                     THEN [calls[c] EXCEPT
                             !.pc = "done",
                             !.deletedCount = deletedCount(subscribers, calls[c].email),
                             !.res = unsubscribeResponse(impl, calls[c].kind,
                                        deletedCount(subscribers, calls[c].email))]
                   ELSE IF calls[d].inserted /\ calls[d].email = calls[c].email
                     THEN [calls[d] EXCEPT !.removed = TRUE]
                     ELSE calls[d]]
  /\ UNCHANGED <<impl, posts, uploads>>

(* -------------------------- check-subscription ------------------------- *)
\* part_000 only: POST /check-subscription
CheckRequest(c, inputs) ==
  /\ impl = "part000"
  /\ FreeSlot(c)
  /\ \E raw \in inputs :
       LET email == normEmail(raw) IN
       calls' = [calls EXCEPT ![c] =
         IF ~validEmailFormat(impl, email)
           THEN [NewCall("check", "done", raw, email) EXCEPT !.res =
                   Res(400, FALSE, "Invalid email format", "")]
           ELSE NewCall("check", "findOne", raw, email)]
  /\ UNCHANGED <<impl, subscribers, posts, uploads>>

CheckBegin(c) == CheckRequest(c, RawEmails)

CheckFindOne(c) ==
  /\ impl = "part000"
  /\ calls[c].kind = "check" /\ calls[c].pc = "findOne"
  /\ \E ok \in BOOLEAN :
       calls' = [calls EXCEPT ![c] =
         IF ~ok
           THEN [@ EXCEPT !.pc = "done", !.storeFailed = TRUE, !.res =
                   Res(500, FALSE, "Server error. Please try again later.", "")]
         ELSE IF findOne(subscribers, calls[c].email) # {}
           THEN [@ EXCEPT !.pc = "done", !.res =
                   Res(200, TRUE, "Email is already subscribed", "subscribed")]
           ELSE [@ EXCEPT !.pc = "done", !.res =
                   Res(200, TRUE, "Email is not subscribed", "notSubscribed")]]
  /\ UNCHANGED <<impl, subscribers, posts, uploads>>

(* ------------------------------- publish ------------------------------- *)
\* JavaScript falsiness of a header or body field
Falsy(v) == v \in {Undefined, ""}

\* The secret the handler compares:
\*   index.js : req.headers['x-publish-secret']
\*   part_000 : req.headers['x-publish-secret'] || req.body.secret
suppliedSecret(i, req) ==
  IF i = "index" THEN req.header
  ELSE IF Falsy(req.header) THEN req.secret ELSE req.header

\* (variant: the secret is accepted from either place)
authorizedEither(i, req) ==
  req.header = PUBLISH_SECRET \/ req.secret = PUBLISH_SECRET

authorized(i, req) == suppliedSecret(i, req) = PUBLISH_SECRET

\* (variant: only the title is checked)
validPublishTitleOnly(req) == ~Falsy(req.title)

\* if (!title || !postUrl)
validPublish(req) == ~Falsy(req.title) /\ ~Falsy(req.postUrl)

\* sendFull === '1' (index.js), sendFull === '1' || sendFull === 'true' (part_000)
coerceSendFull(i, v) ==
  IF i = "index" THEN v = "1" ELSE v = "1" \/ v = "true"

\* The document handed to Post.create
NewPost(i, req) ==
  [title |-> req.title, postUrl |-> req.postUrl,
   attachment |-> req.file, sendFull |-> coerceSendFull(i, req.sendFull),
   publishedAt |-> "Date"]

\* a || b
Or(a, b) == IF Falsy(a) THEN b ELSE a

\* const emailBody = (sendFull === '1' [|| sendFull === 'true'])
\*                      ? (content || excerpt || '') : (excerpt || '')
emailBody(i, req) ==
  IF coerceSendFull(i, req.sendFull)
    THEN Or(req.content, Or(req.excerpt, ""))
    ELSE Or(req.excerpt, "")

\* The values the template of a subscriber notification embeds, in order:
\* the title, the body chosen above, the note that stands for the full
\* article when only the excerpt is sent, and the link to the post
publishHtml(i, req) ==
  <<req.title, emailBody(i, req),
    IF ~coerceSendFull(i, req.sendFull) /\ ~Falsy(req.excerpt) /\ ~Falsy(req.content)
      THEN "Full article available at the link below..." ELSE "",
    req.postUrl>>

\* (variant: the notification reports the size of the snapshot as sent)
adminCountsTotal(i, call) ==
  [sent |-> Len(call.subs),
   failed |-> IF i = "index" THEN -1 ELSE Len(call.failedEmails),
   total |-> Len(call.subs)]

\* The counts in adminHtml: sentCount, failedEmails.length (part_000 only),
\* subs.length
adminCounts(i, call) ==
  [sent |-> call.sentCount,
   failed |-> IF i = "index" THEN -1 ELSE Len(call.failedEmails),
   total |-> Len(call.subs)]

\* The notification for the subscriber the loop is about to reach
PostMail(call) ==
  [Mail(call.subs[call.idx + 1].email, "post") EXCEPT
     !.body = publishHtml(impl, call.req)]

\* The administrator notification sent after the loop
PublishedMail(call) ==
  [Mail(ADMIN_EMAIL, "published") EXCEPT !.counts = adminCounts(impl, call)]

\* The catch clause of POST /publish
publishCatch(i) ==
  IF i = "index"
    THEN Res(500, FALSE, "Internal server error", "")
    ELSE [Res(500, FALSE, "Internal server error", "") EXCEPT !.error = "error.message"]

\* (variant: a failed send turns the response into an error)
publishResponseStrict(i, call) ==
  IF \E k \in 1..Len(call.mails) : call.mails[k].st = "fail"
    THEN Res(500, FALSE, "Internal server error", "")
    ELSE [Res(200, TRUE, "Published successfully", "") EXCEPT
            !.sent = call.sentCount,
            !.total = IF i = "index" THEN -1 ELSE Len(call.subs),
            !.failed = IF i = "index" THEN -1 ELSE 0]

\* res.json at the end of POST /publish
publishResponse(i, call) ==
  IF i = "index"
    THEN [Res(200, TRUE, "Published successfully", "") EXCEPT
            !.sent = call.sentCount]
    ELSE [Res(200, TRUE, "Published successfully", "") EXCEPT
            !.sent = call.sentCount,
            !.total = Len(call.subs),
            !.failed = Len(call.failedEmails),
            !.hasFailedEmails = Len(call.failedEmails) > 0,
            !.failedEmails = call.failedEmails]

\* (variant: the loop is left at the first failed send)
publishAdvanceBreak(call) ==
  IF call.idx < Len(call.subs) /\
     (call.mails = <<>> \/ call.mails[Len(call.mails)].st # "fail")
    THEN [call EXCEPT !.idx = @ + 1,
                      !.mails = Append(@, PostMail(call)),
                      !.pc = "sending"]
    ELSE [call EXCEPT !.mails = Append(@, PublishedMail(call)),
                      !.stages = Append(@, "Summarizing"),
                      !.pc = "admin"]

\* The statement after the body of one loop iteration: the mail for the next
\* subscriber of the snapshot is handed to the transport, or, after the last
\* one, the administrator notification is.
publishAdvance(call) ==
  IF call.idx < Len(call.subs)
    THEN [call EXCEPT !.idx = @ + 1,
                      !.mails = Append(@, PostMail(call)),
                      !.pc = "sending"]
    ELSE [call EXCEPT !.mails = Append(@, PublishedMail(call)),
                      !.stages = Append(@, "Summarizing"),
                      !.pc = "admin"]

\* (variant: the required fields are checked before the secret)
publishChecksValidateFirst(i, req) ==
  IF ~validPublish(req) THEN <<"Validating", "Rejected">>
  ELSE IF ~authorized(i, req) THEN <<"Validating", "Authorizing", "Rejected">>
  ELSE <<"Validating", "Authorizing">>

\* The checks at the head of the handler, in the order of the code: the
\* secret (401), then title and postUrl (400). (stages is history: the
\* stages a publish call has entered, in order.)
publishChecks(i, req) ==
  IF ~authorized(i, req) THEN <<"Authorizing", "Rejected">>
  ELSE IF ~validPublish(req) THEN <<"Authorizing", "Validating", "Rejected">>
  ELSE <<"Authorizing", "Validating">>

\* The model stops accepting publish requests that would store a post beyond
\* MaxPosts.
PostsBelow(cap) ==
  Len(posts) + Cardinality({d \in Slots : calls[d].kind = "publish" /\
                                          calls[d].pc \in {"find", "create"}})
    < cap

PostsBelowCap == PostsBelow(MaxPosts)

\* multer stores the uploaded file, then the handler checks the secret and
\* the required fields and issues Subscriber.find({})
PublishRequest(c, requests, cap) ==
  /\ FreeSlot(c)
  /\ \E req \in requests :
       /\ (authorized(impl, req) /\ validPublish(req)) => PostsBelow(cap)
       /\ req.file => uploads < MaxUploads
       /\ uploads' = IF req.file THEN uploads + 1 ELSE uploads
       /\ calls' = [calls EXCEPT ![c] =
            IF ~authorized(impl, req)
              THEN [NewCall("publish", "done", <<>>, <<>>) EXCEPT
                      !.req = req, !.stages = publishChecks(impl, req),
                      !.res = Res(401, FALSE, "Invalid secret", "")]
            ELSE IF ~validPublish(req)
              THEN [NewCall("publish", "done", <<>>, <<>>) EXCEPT
                      !.req = req, !.stages = publishChecks(impl, req),
                      !.res = Res(400, FALSE, "Title and post URL are required", "")]
              ELSE [NewCall("publish", "find", <<>>, <<>>) EXCEPT
                      !.req = req,
                      !.stages = Append(publishChecks(impl, req), "Snapshotting")]]
  /\ UNCHANGED <<impl, subscribers, posts>>

PublishBegin(c, requests) == PublishRequest(c, requests, MaxPosts)

\* await Subscriber.find({}) returns the snapshot; Post.create is issued
PublishFind(c) ==
  /\ calls[c].kind = "publish" /\ calls[c].pc = "find"
  /\ \E ok \in BOOLEAN :
       calls' = [calls EXCEPT ![c] =
         IF ~ok
           THEN [@ EXCEPT !.pc = "done", !.storeFailed = TRUE,
                          !.stages = Append(@, "Failed"),
                          !.res = publishCatch(impl)]
           ELSE [@ EXCEPT !.pc = "create", !.subs = subscribers,
                          !.stages = Append(@, "Persisting")]]
  /\ UNCHANGED <<impl, subscribers, posts, uploads>>

\* (variant: a rejected Post.create is swallowed and the fan-out starts)
PublishCreateSwallow(c) ==
  /\ calls[c].kind = "publish" /\ calls[c].pc = "create"
  /\ \E ok \in BOOLEAN :
       IF ~ok
         THEN /\ calls' = [calls EXCEPT ![c] =
                   publishAdvance([@ EXCEPT !.storeFailed = TRUE,
                                            !.stages = Append(@, "Fanning-Out")])]
              /\ UNCHANGED posts
         ELSE /\ posts' = Append(posts, NewPost(impl, calls[c].req))
              /\ calls' = [calls EXCEPT ![c] =
                   publishAdvance([@ EXCEPT !.postIds = Append(@, Len(posts) + 1),
                                            !.stages = Append(@, "Fanning-Out")])]
  /\ UNCHANGED <<impl, subscribers, uploads>>

\* (variant: the insert is issued again after it has succeeded)
PublishCreateTwice(c) ==
  /\ calls[c].kind = "publish" /\ calls[c].pc = "create"
  /\ \E ok \in BOOLEAN :
       IF ~ok
         THEN /\ calls' = [calls EXCEPT ![c] =
                   [@ EXCEPT !.pc = "done", !.storeFailed = TRUE,
                          !.stages = Append(@, "Failed"),
                          !.res = publishCatch(impl)]]
              /\ UNCHANGED posts
         ELSE /\ posts' = Append(Append(posts, NewPost(impl, calls[c].req)),
                                 NewPost(impl, calls[c].req))
              /\ calls' = [calls EXCEPT ![c] =
                   publishAdvance([@ EXCEPT !.postIds = Append(@, Len(posts) + 1),
                                            !.stages = Append(@, "Fanning-Out")])]
  /\ UNCHANGED <<impl, subscribers, uploads>>

\* await Post.create(...) returns; the fan-out loop starts
PublishCreate(c) ==
  /\ calls[c].kind = "publish" /\ calls[c].pc = "create"
  /\ \E ok \in BOOLEAN :
       IF ~ok
         THEN /\ calls' = [calls EXCEPT ![c] =
                   [@ EXCEPT !.pc = "done", !.storeFailed = TRUE,
                          !.stages = Append(@, "Failed"),
                          !.res = publishCatch(impl)]]
              /\ UNCHANGED posts
         ELSE /\ posts' = Append(posts, NewPost(impl, calls[c].req))
              /\ calls' = [calls EXCEPT ![c] =
                   publishAdvance([@ EXCEPT !.postIds = Append(@, Len(posts) + 1),
                                            !.stages = Append(@, "Fanning-Out")])]
  /\ UNCHANGED <<impl, subscribers, uploads>>

\* (variant: every attempt is counted as sent)
publishCountAll(i, call, ok) ==
  IF ok \/ i = "index" THEN [call EXCEPT !.sentCount = @ + 1]
  ELSE [call EXCEPT !.sentCount = @ + 1,
                    !.failedEmails = Append(@, call.subs[call.idx].email)]

\* The sends of all publish calls in progress that have succeeded
SucceededEverywhere ==
  LET n[k \in 0..MaxCalls] ==
        IF k = 0 THEN 0
        ELSE n[k - 1] + (IF calls[k].kind = "publish" /\ calls[k].pc \notin Finished
                           THEN calls[k].sentCount ELSE 0)
  IN n[MaxCalls]

\* (variant: sentCount is one counter shared by the publish calls in progress)
publishCountShared(i, call, ok) ==
  IF ok THEN [call EXCEPT !.sentCount = SucceededEverywhere + 1]
  ELSE IF i = "index" THEN call
  ELSE [call EXCEPT !.failedEmails = Append(@, call.subs[call.idx].email)]

\* await safeSend(mailOptions) returns for the current subscriber
publishCount(i, call, ok) ==
  IF ok THEN [call EXCEPT !.sentCount = @ + 1]
  ELSE IF i = "index" THEN call
  ELSE [call EXCEPT !.failedEmails = Append(@, call.subs[call.idx].email)]

\* (variant: the next mail is handed over without the pacing delay)
PublishSendReturnNoDelay(c) ==
  /\ calls[c].kind = "publish" /\ calls[c].pc = "sending"
  /\ \E accepted \in BOOLEAN :
       calls' = [calls EXCEPT ![c] =
         publishAdvance(publishCount(impl,
                      [@ EXCEPT !.mails = Settle(@, Len(@), accepted), !.pc = "delay"],
                      safeSend(accepted)))]
  /\ UNCHANGED <<impl, subscribers, posts, uploads>>

\* (variant: a rejected send escapes the handler, which never answers)
PublishSendReturnHang(c) ==
  /\ calls[c].kind = "publish" /\ calls[c].pc = "sending"
  /\ \E accepted \in BOOLEAN :
       calls' = [calls EXCEPT ![c] =
         IF accepted
           THEN publishCount(impl,
                      [@ EXCEPT !.mails = Settle(@, Len(@), accepted), !.pc = "delay"],
                      safeSend(accepted))
           ELSE [@ EXCEPT !.mails = Settle(@, Len(@), accepted), !.pc = "hung"]]
  /\ UNCHANGED <<impl, subscribers, posts, uploads>>

PublishSendReturn(c) ==
  /\ calls[c].kind = "publish" /\ calls[c].pc = "sending"
  /\ \E accepted \in BOOLEAN :
       calls' = [calls EXCEPT ![c] =
         publishCount(impl,
                      [@ EXCEPT !.mails = Settle(@, Len(@), accepted), !.pc = "delay"],
                      safeSend(accepted))]
  /\ UNCHANGED <<impl, subscribers, posts, uploads>>

\* (variant: the loop reads the subscriber collection again at each turn)
PublishDelayRefresh(c) ==
  /\ calls[c].kind = "publish" /\ calls[c].pc = "delay"
  /\ calls' = [calls EXCEPT ![c] = publishAdvance([@ EXCEPT !.subs = subscribers])]
  /\ UNCHANGED <<impl, subscribers, posts, uploads>>

\* the pacing delay (setTimeout) elapses
PublishDelay(c) ==
  /\ calls[c].kind = "publish" /\ calls[c].pc = "delay"
  /\ calls' = [calls EXCEPT ![c] = publishAdvance(@)]
  /\ UNCHANGED <<impl, subscribers, posts, uploads>>

\* await safeSend(admin notification) returns; res.json(response)
PublishAdminReturn(c) ==
  /\ calls[c].kind = "publish" /\ calls[c].pc = "admin"
  /\ \E accepted \in BOOLEAN :
       calls' = [calls EXCEPT ![c] =
         LET call == [@ EXCEPT !.mails = Settle(@, Len(@), accepted), !.pc = "done",
                               !.stages = Append(@, "Done")]
         IN [call EXCEPT !.res = publishResponse(impl, call)]]
  /\ UNCHANGED <<impl, subscribers, posts, uploads>>

(* ----------------------------- GET /posts ------------------------------ *)
RECURSIVE Reverse(_)
Reverse(s) == IF s = <<>> THEN <<>> ELSE Append(Reverse(Tail(s)), Head(s))

\* Post.find({}, { _id: 0, __v: 0 }).sort({ publishedAt: -1 }): the newest
\* post first (posts are stored in the order of their publishedAt)
listPosts(store) == Reverse(store)

\* GET /posts issues Post.find. The handler takes any slot holding no running
\* request, so that the record of the publish call before it is kept.
PostsBegin(c) ==
  /\ calls[c].pc \in Finished
  /\ calls' = [calls EXCEPT ![c] = NewCall("posts", "find", <<>>, <<>>)]
  /\ UNCHANGED <<impl, subscribers, posts, uploads>>

\* await Post.find(...) returns: res.json(posts), or res.status(500).json([])
PostsFind(c) ==
  /\ calls[c].kind = "posts" /\ calls[c].pc = "find"
  /\ \E ok \in BOOLEAN :
       calls' = [calls EXCEPT ![c] =
         IF ~ok
           THEN [@ EXCEPT !.pc = "done", !.storeFailed = TRUE,
                          !.res = Res(500, FALSE, "", "")]
           ELSE [@ EXCEPT !.pc = "done",
                          !.res = [Res(200, TRUE, "", "") EXCEPT
                                     !.posts = listPosts(posts)]]]
  /\ UNCHANGED <<impl, subscribers, posts, uploads>>

\* Publish requests: a well-formed request, varied in its secrets (every
\* combination of header and body field), in its required fields (missing,
\* empty), in both at once, and in sendFull and the attachment
OkReq ==
  [header |-> PUBLISH_SECRET, secret |-> Undefined, title |-> "Hello",
   postUrl |-> "https://x/1", excerpt |-> "EXC", content |-> "FULL",
   sendFull |-> Undefined, file |-> FALSE]

Secrets == {Undefined, PUBLISH_SECRET, "wrong"}
Titles == {Undefined, "", "Hello"}
PostUrls == {Undefined, "", "https://x/1"}

PublishRequests ==
  {[OkReq EXCEPT !.header = h, !.secret = s] : h \in Secrets, s \in Secrets}
  \cup {[OkReq EXCEPT !.title = t, !.postUrl = u] : t \in Titles, u \in PostUrls}
  \cup {[OkReq EXCEPT !.header = "wrong", !.title = t, !.postUrl = u, !.file = TRUE] :
          t \in Titles, u \in PostUrls}
  \cup {[OkReq EXCEPT !.header = h, !.secret = PUBLISH_SECRET, !.sendFull = f,
                      !.file = a] :
          h \in {Undefined, PUBLISH_SECRET}, f \in {"1", "true"}, a \in BOOLEAN}
  \cup {[OkReq EXCEPT !.sendFull = f] : f \in {"0", "false", JsTrue, JsFalse}}
  \cup {[OkReq EXCEPT !.sendFull = f, !.content = b] :
          f \in {"1", Undefined}, b \in {Undefined, ""}}

\* Subscriber collections a publish call can find: the records are unique by
\* email and come in any order
PublishEmails ==
  { <<"a", "@", "b", ".", "c", "o", "m">>,
    <<"x", "@", "y", ".", "i", "o">>,
    <<"m", "@", "n", ".", "i", "o">> }

PublishStores ==
  {st \in UNION {[1..n -> [email : PublishEmails]] : n \in 0..Cardinality(PublishEmails)} :
     \A i, j \in 1..Len(st) : st[i].email = st[j].email => i = j}

(* --------------------------- specification ----------------------------- *)
Init ==
  /\ impl \in Impls
  /\ subscribers = <<>>
  /\ posts = <<>>
  /\ uploads = 0
  /\ calls = [c \in Slots |-> IdleCall]

Next ==
  \E c \in Slots :
    \/ SubscribeBegin(c)
    \/ SubscribeFindOne(c)
    \/ SubscribeCreate(c)
    \/ SubscribeWelcomeReturn(c)
    \/ SubscribeCount(c)
    \/ SubscribeAdminReturn(c)
    \/ SubscribeMailSettle(c)
    \/ UnsubscribeBegin(c)
    \/ UnsubscribeDelete(c)
    \/ CheckBegin(c)
    \/ CheckFindOne(c)

Spec == Init /\ [][Next]_vars

\* The publish orchestrator alone, one request after the other, over every
\* subscriber collection
NoneRunning == \A d \in Slots : calls[d].pc \in Finished

InitPublish ==
  /\ impl \in Impls
  /\ subscribers \in PublishStores
  /\ posts = <<>>
  /\ uploads = 0
  /\ calls = [c \in Slots |-> IdleCall]

NextPublish ==
  \E c \in Slots :
    \/ (NoneRunning /\ PublishBegin(c, PublishRequests))
    \/ PublishFind(c)
    \/ PublishCreate(c)
    \/ PublishSendReturn(c)
    \/ PublishDelay(c)
    \/ PublishAdminReturn(c)

SpecPublish == InitPublish /\ [][NextPublish]_vars

\* Publishing and listing, one request after the other: well-formed publish
\* requests with every form of sendFull, over a collection of at most one
\* subscriber
SendFullRequests ==
  {[OkReq EXCEPT !.sendFull = f] :
     f \in {JsTrue, JsFalse, "1", "true", "0", "false", Undefined}}

InitPosts ==
  /\ impl \in Impls
  /\ subscribers \in {st \in PublishStores : Len(st) <= 1}
  /\ posts = <<>>
  /\ uploads = 0
  /\ calls = [c \in Slots |-> IdleCall]

NextPosts ==
  \E c \in Slots :
    \/ (NoneRunning /\ PublishBegin(c, SendFullRequests))
    \/ PublishFind(c)
    \/ PublishCreate(c)
    \/ PublishSendReturn(c)
    \/ PublishDelay(c)
    \/ PublishAdminReturn(c)
    \/ (NoneRunning /\ PostsBegin(c))
    \/ PostsFind(c)

SpecPosts == InitPosts /\ [][NextPosts]_vars

\* One publish call at a time while subscribe and unsubscribe requests for
\* two emails come and go, one after the other, at every await of the
\* publish call
MixedEmails ==
  { <<"a", "@", "b", ".", "c", "o", "m">>,
    <<"x", "@", "y", ".", "i", "o">> }

NoPublishRunning ==
  \A d \in Slots : calls[d].kind = "publish" => calls[d].pc \in Finished

NoSubscriptionRunning ==
  \A d \in Slots : calls[d].kind # "publish" => calls[d].pc \in Finished

NextMixed ==
  \E c \in Slots :
    \/ (NoPublishRunning /\ PublishBegin(c, {OkReq}))
    \/ PublishFind(c)
    \/ PublishCreate(c)
    \/ PublishSendReturn(c)
    \/ PublishDelay(c)
    \/ PublishAdminReturn(c)
    \/ (NoSubscriptionRunning /\ SubscribeRequest(c, MixedEmails))
    \/ SubscribeFindOne(c)
    \/ SubscribeCreate(c)
    \/ SubscribeWelcomeReturn(c)
    \/ SubscribeCount(c)
    \/ SubscribeAdminReturn(c)
    \/ SubscribeMailSettle(c)
    \/ (NoSubscriptionRunning /\ UnsubscribeRequest(c, MixedEmails, {"unsubscribe"}))
    \/ UnsubscribeDelete(c)

SpecMixed == Init /\ [][NextMixed]_vars

\* The same, where every send handed to the transport returns and every
\* pacing timer fires
FairMixed ==
  \A c \in Slots :
    /\ WF_vars(PublishSendReturn(c))
    /\ WF_vars(PublishDelay(c))
    /\ WF_vars(PublishAdminReturn(c))

SpecMixedFair == SpecMixed /\ FairMixed

\* Publish calls running concurrently, for two posts, over a collection of one
\* or two subscribers
ConcurrentRequests ==
  {OkReq, [OkReq EXCEPT !.title = "World", !.postUrl = "https://x/2"]}

ConcurrentStores ==
  LET a == [email |-> <<"a", "@", "b", ".", "c", "o", "m">>]
      x == [email |-> <<"x", "@", "y", ".", "i", "o">>]
  IN {<<a>>, <<a, x>>}

InitConcurrent ==
  /\ impl \in Impls
  /\ subscribers \in ConcurrentStores
  /\ posts = <<>>
  /\ uploads = 0
  /\ calls = [c \in Slots |-> IdleCall]

NextConcurrent ==
  \E c \in Slots :
    \/ PublishRequest(c, ConcurrentRequests, MaxConcurrentPosts)
    \/ PublishFind(c)
    \/ PublishCreate(c)
    \/ PublishSendReturn(c)
    \/ PublishDelay(c)
    \/ PublishAdminReturn(c)

SpecConcurrent == InitConcurrent /\ [][NextConcurrent]_vars

\* Every handler of the service, one request after the other
SystemRequests ==
  {OkReq, [OkReq EXCEPT !.header = "wrong"], [OkReq EXCEPT !.title = Undefined]}

NextSystem ==
  \E c \in Slots :
    \/ (NoneRunning /\ PublishBegin(c, SystemRequests))
    \/ PublishFind(c)
    \/ PublishCreate(c)
    \/ PublishSendReturn(c)
    \/ PublishDelay(c)
    \/ PublishAdminReturn(c)
    \/ (NoneRunning /\ SubscribeRequest(c, MixedEmails))
    \/ SubscribeFindOne(c)
    \/ SubscribeCreate(c)
    \/ SubscribeWelcomeReturn(c)
    \/ SubscribeCount(c)
    \/ SubscribeAdminReturn(c)
    \/ SubscribeMailSettle(c)
    \/ (NoneRunning /\ UnsubscribeRequest(c, MixedEmails,
                                          {"unsubscribe", "unsubscribeGet"}))
    \/ UnsubscribeDelete(c)
    \/ (NoneRunning /\ CheckRequest(c, MixedEmails))
    \/ CheckFindOne(c)
    \/ (NoneRunning /\ PostsBegin(c))
    \/ PostsFind(c)

SpecSystem == Init /\ [][NextSystem]_vars

\* The subscribe handler alone, one request after the other, over the inputs
\* around the format check
NextSubscribe ==
  \E c \in Slots :
    \/ (NoneRunning /\ SubscribeRequest(c, ValidationEmails))
    \/ SubscribeFindOne(c)
    \/ SubscribeCreate(c)
    \/ SubscribeWelcomeReturn(c)
    \/ SubscribeCount(c)
    \/ SubscribeAdminReturn(c)
    \/ SubscribeMailSettle(c)

SpecSubscribe == Init /\ [][NextSubscribe]_vars

(* ===================== properties of the publish handler =============== *)
\* The request as the claims describe it (restated from the request fields)
SecretMatches(req) ==
  IF impl = "index"
    THEN req.header = PUBLISH_SECRET
    ELSE (IF req.header \in {Undefined, ""} THEN req.secret ELSE req.header)
           = PUBLISH_SECRET

FieldsPresent(req) ==
  req.title \notin {Undefined, ""} /\ req.postUrl \notin {Undefined, ""}

IsPostMail(m) == m.type = "post"
IsFailedMail(m) == m.st = "fail"

\* The subscriber notifications of a call, in the order they were attempted
PostMails(call) == SelectSeq(call.mails, IsPostMail)

\* The recipients whose send the transport rejected, in the order attempted
FailedTo(call) ==
  LET f == SelectSeq(PostMails(call), IsFailedMail)
  IN [k \in 1..Len(f) |-> f[k].to]

SnapshotEmails(call) == [k \in 1..Len(call.subs) |-> call.subs[k].email]

\* C1: in both publish handlers a publish call whose supplied secret differs
\* from the configured secret is answered 401, creates no Post record and
\* attempts no email send, whatever its other fields and whatever the
\* subscriber collection holds.
C1_WrongSecretNoEffect ==
  \A c \in Slots :
    (calls[c].kind = "publish" /\ ~SecretMatches(calls[c].req)) =>
      /\ calls[c].pc = "done"
      /\ calls[c].res.status = 401 /\ ~calls[c].res.success
      /\ calls[c].postIds = <<>>
      /\ calls[c].mails = <<>>

C1_Witness ==
  \E c \in Slots :
    /\ calls[c].kind = "publish" /\ calls[c].pc = "done"
    /\ calls[c].req.header = "wrong" /\ calls[c].req.secret = PUBLISH_SECRET
    /\ FieldsPresent(calls[c].req)
    /\ Len(subscribers) = 3
    /\ calls[c].res.status = 401

\* C2: in both publish handlers an authorized publish call whose title or
\* postUrl is missing or empty is answered 400, creates no Post record and
\* attempts no email send.
C2_MissingFieldNoEffect ==
  \A c \in Slots :
    (calls[c].kind = "publish" /\ SecretMatches(calls[c].req)
       /\ ~FieldsPresent(calls[c].req)) =>
      /\ calls[c].pc = "done"
      /\ calls[c].res.status = 400 /\ ~calls[c].res.success
      /\ calls[c].postIds = <<>>
      /\ calls[c].mails = <<>>

C2_Witness ==
  \E c \in Slots :
    /\ calls[c].kind = "publish" /\ calls[c].pc = "done"
    /\ calls[c].req.header = PUBLISH_SECRET
    /\ calls[c].req.title = "Hello" /\ calls[c].req.postUrl = ""
    /\ Len(subscribers) = 2
    /\ calls[c].res.status = 400

\* C3: in part_000, an authorized, valid publish call whose store operations
\* succeed, over a snapshot of N subscribers of which the transport rejects
\* the subset F: exactly one Post record is created, the response is a
\* success, sent = N - |F|, failed = |F|, total = N, and the failed list is
\* the emails of F, each once, in the order of the snapshot.
C3_DeliveryResult ==
  \A c \in Slots :
    (impl = "part000" /\ calls[c].kind = "publish" /\ calls[c].pc = "done"
       /\ SecretMatches(calls[c].req) /\ FieldsPresent(calls[c].req)
       /\ ~calls[c].storeFailed) =>
      LET call == calls[c]
          N == Len(call.subs)
          F == FailedTo(call)
      IN /\ Len(call.postIds) = 1
         /\ call.res.status = 200 /\ call.res.success
         /\ call.res.total = N
         /\ call.res.failed = Len(F)
         /\ call.res.sent = N - Len(F)
         /\ call.res.sent + call.res.failed = call.res.total
         /\ call.res.failedEmails = F
         /\ call.res.hasFailedEmails = (F # <<>>)
         /\ \A j, k \in 1..Len(F) : F[j] = F[k] => j = k

C3_Witness ==
  \E c \in Slots :
    /\ impl = "part000" /\ calls[c].kind = "publish" /\ calls[c].pc = "done"
    /\ Len(calls[c].subs) = 3
    /\ calls[c].res.success /\ calls[c].res.sent = 2
    /\ calls[c].res.failedEmails = <<calls[c].subs[2].email>>
    /\ Len(calls[c].postIds) = 1

\* C4: a publish call attempts no email send (subscriber notification or
\* administrator notification) before its Post insert has succeeded, so a
\* call whose insert fails sends nothing; and the Post record it inserted
\* is in the store whatever the outcome of its sends.
C4_PersistBeforeSend ==
  \A c \in Slots :
    calls[c].kind = "publish" =>
      /\ calls[c].mails # <<>> => Len(calls[c].postIds) = 1
      /\ \A k \in 1..Len(calls[c].postIds) :
           /\ calls[c].postIds[k] \in 1..Len(posts)
           /\ posts[calls[c].postIds[k]].title = calls[c].req.title
           /\ posts[calls[c].postIds[k]].postUrl = calls[c].req.postUrl

C4_Witness ==
  \E c \in Slots :
    /\ calls[c].kind = "publish" /\ calls[c].pc = "done"
    /\ Len(calls[c].subs) = 2 /\ Len(calls[c].mails) = 3
    /\ \A k \in 1..Len(calls[c].mails) : calls[c].mails[k].st = "fail"
    /\ Len(calls[c].postIds) = 1
    /\ calls[c].postIds[1] \in 1..Len(posts)

\* C5: once the Post record of a publish call is stored, the call runs on
\* without an error and ends with a success response, whichever subscriber
\* sends fail and whether or not the administrator notification fails.
C5_SuccessOncePersisted ==
  \A c \in Slots :
    (calls[c].kind = "publish" /\ calls[c].postIds # <<>>) =>
      /\ calls[c].pc \in {"sending", "delay", "admin", "done"}
      /\ calls[c].pc = "done" =>
           (calls[c].res.status = 200 /\ calls[c].res.success)

C5_Witness ==
  \E c \in Slots :
    /\ calls[c].kind = "publish" /\ calls[c].pc = "done"
    /\ calls[c].postIds # <<>>
    /\ Len(calls[c].subs) = 3 /\ calls[c].sentCount = 0
    /\ calls[c].mails[Len(calls[c].mails)].type = "published"
    /\ calls[c].mails[Len(calls[c].mails)].st = "fail"
    /\ calls[c].res.success

\* C6: during fan-out the send attempts of a call are exactly the
\* subscribers of its snapshot, in order, one attempt each: a failed send
\* neither stops the loop nor is repeated, and in part_000 the failed list
\* holds the recipient of each failed send exactly once.
C6_OneAttemptEach ==
  \A c \in Slots :
    (calls[c].kind = "publish" /\ calls[c].postIds # <<>>) =>
      LET call == calls[c]
          sent == PostMails(call)
      IN /\ Len(sent) = call.idx
         /\ \A k \in 1..Len(sent) : sent[k].to = call.subs[k].email
         /\ call.pc \in {"admin", "done"} => Len(sent) = Len(call.subs)
         /\ impl = "part000" =>
              \A k \in 1..Len(sent) :
                Cardinality({j \in 1..Len(call.failedEmails) :
                               call.failedEmails[j] = sent[k].to})
                  = (IF sent[k].st = "fail" THEN 1 ELSE 0)

C6_Witness ==
  \E c \in Slots :
    /\ impl = "part000" /\ calls[c].kind = "publish" /\ calls[c].pc = "done"
    /\ Len(calls[c].subs) = 3 /\ Len(calls[c].mails) = 4
    /\ calls[c].mails[1].st = "fail" /\ calls[c].mails[2].st = "ok"
    /\ calls[c].mails[3].st = "fail"
    /\ calls[c].failedEmails = <<calls[c].subs[1].email, calls[c].subs[3].email>>

(* =================== properties of the subscription manager ============ *)
\* The subscriber key expected for each input email: leading and trailing
\* whitespace stripped, lowercased
ExpectedKey(raw) ==
  CASE raw = <<" ", " ", "A", "@", "B", ".", "c", "o", "m", " ">>
         -> <<"a", "@", "b", ".", "c", "o", "m">>
    [] raw = <<"a", "@", "b", ".", "c", "o", "m">>
         -> <<"a", "@", "b", ".", "c", "o", "m">>
    [] raw = <<"x", "@", "y", ".", "i", "o">>
         -> <<"x", "@", "y", ".", "i", "o">>
    [] raw = <<>> -> <<>>

HasRecord(store, key) == \E k \in 1..Len(store) : store[k].email = key

Without(store, key) ==
  LET Other(r) == r.email # key IN SelectSeq(store, Other)

\* The call's inserted record is still the stored one
Live(call) == call.kind = "subscribe" /\ call.inserted /\ ~call.removed

ReportsAlready(call) ==
  /\ call.res.status = 200
  /\ call.res.message \in {"Already subscribed", "This email is already subscribed"}

ReportsCreated(call) ==
  /\ call.res.status = 200 /\ call.res.success
  /\ call.res.message = "Subscribed successfully"

\* C7: under every interleaving of subscribe and unsubscribe calls the
\* subscriber collection holds at most one record per email; of the
\* subscribe calls for one email at most one has inserted the record that
\* is stored (a second insert needs a deletion in between), a call whose
\* insert the unique index rejected is answered "already subscribed" with
\* status 200, not a server error, and only a call that inserted reports
\* Created; calls for two distinct emails leave two distinct records.
C7_OneRecordPerEmail ==
  /\ \A j, k \in 1..Len(subscribers) :
       subscribers[j].email = subscribers[k].email => j = k
  /\ \A c, d \in Slots :
       (c # d /\ Live(calls[c]) /\ Live(calls[d])) =>
         /\ calls[c].email # calls[d].email
         /\ \E j, k \in 1..Len(subscribers) :
              /\ j # k
              /\ subscribers[j].email = calls[c].email
              /\ subscribers[k].email = calls[d].email
  /\ \A c \in Slots :
       calls[c].kind = "subscribe" =>
         /\ Live(calls[c]) => HasRecord(subscribers, calls[c].email)
         /\ calls[c].conflict = "create" =>
              (calls[c].pc = "done" /\ ReportsAlready(calls[c]) /\ ~calls[c].inserted)
         /\ (calls[c].pc = "done" /\ ReportsCreated(calls[c])) => calls[c].inserted

C7_Witness ==
  \E c, d \in Slots :
    /\ impl = "part000" /\ c # d
    /\ calls[c].kind = "subscribe" /\ calls[d].kind = "subscribe"
    /\ calls[c].email = calls[d].email
    /\ calls[c].pc = "done" /\ ReportsCreated(calls[c]) /\ Live(calls[c])
    /\ calls[d].pc = "done" /\ calls[d].conflict = "create" /\ ReportsAlready(calls[d])
    /\ Len(subscribers) = 1

\* C8: a subscribe call that finds a record for its normalized email, by the
\* lookup or as the loser of a concurrent insert, inserts nothing, attempts
\* no email send (welcome or administrator) and is answered "already
\* subscribed"; only a call that inserted a record sends any mail.
C8_DuplicateNoEffect ==
  \A c \in Slots :
    calls[c].kind = "subscribe" =>
      /\ calls[c].conflict # "" =>
           /\ calls[c].pc = "done"
           /\ ~calls[c].inserted
           /\ calls[c].mails = <<>>
           /\ ReportsAlready(calls[c])
      /\ calls[c].mails # <<>> => calls[c].inserted

C8_Witness ==
  \E c \in Slots :
    /\ calls[c].kind = "subscribe" /\ calls[c].pc = "done"
    /\ calls[c].raw = <<" ", " ", "A", "@", "B", ".", "c", "o", "m", " ">>
    /\ calls[c].conflict = "findOne"
    /\ calls[c].mails = <<>>
    /\ subscribers = <<[email |-> <<"a", "@", "b", ".", "c", "o", "m">>]>>

\* C9 (as claimed): an unsubscribe call for an email that is not subscribed
\* is answered with a success that signals "was not subscribed".
C9_NotSubscribedSignalled ==
  \A c \in Slots :
    (calls[c].kind = "unsubscribe" /\ calls[c].pc = "done"
       /\ ~calls[c].storeFailed /\ calls[c].deletedCount = 0) =>
      /\ calls[c].res.status = 200 /\ calls[c].res.success
      /\ calls[c].res.flag = "alreadyUnsubscribed"

\* C10: subscribe, unsubscribe and check-subscription all act on the record
\* whose key is the normalized input: a subscribe finds the record stored
\* under the key (already subscribed) or appends a record with exactly that
\* key, a check reports subscribed exactly when the key has a record, and an
\* unsubscribe removes exactly the record with that key.
C10_Step(c) ==
  LET old == calls[c]
      new == calls'[c]
      key == ExpectedKey(old.raw)
      present == HasRecord(subscribers, key)
  IN (old.pc \in {"findOne", "create", "deleteOne"} /\ new.pc # old.pc
        /\ ~new.storeFailed) =>
       CASE old.kind = "subscribe" ->
              IF present
                THEN new.conflict = old.pc /\ ReportsAlready(new)
                     /\ subscribers' = subscribers
                ELSE IF old.pc = "create"
                       THEN subscribers' = Append(subscribers, [email |-> key])
                            /\ new.inserted
                       ELSE new.pc = "create" /\ subscribers' = subscribers
         [] old.kind = "check" ->
              /\ new.res.flag = (IF present THEN "subscribed" ELSE "notSubscribed")
              /\ subscribers' = subscribers
         [] old.kind \in {"unsubscribe", "unsubscribeGet"} ->
              /\ new.deletedCount = (IF present THEN 1 ELSE 0)
              /\ subscribers' = Without(subscribers, key)
         [] OTHER -> TRUE

C10_NormalizedKey == [][\A c \in Slots : C10_Step(c)]_vars

C10_Witness ==
  \E c, d \in Slots :
    /\ calls[c].kind = "subscribe" /\ calls[c].inserted /\ calls[c].removed
    /\ calls[c].raw = <<" ", " ", "A", "@", "B", ".", "c", "o", "m", " ">>
    /\ calls[d].kind = "unsubscribe" /\ calls[d].pc = "done"
    /\ calls[d].raw = <<"a", "@", "b", ".", "c", "o", "m">>
    /\ calls[d].deletedCount = 1
    /\ ~HasRecord(subscribers, <<"a", "@", "b", ".", "c", "o", "m">>)

(* ====================== properties of input validation ================= *)
\* The normalized form of an input as the claims describe it
HasChar(s, ch) == \E k \in DOMAIN s : s[k] = ch

Malformed(email) == ~HasChar(email, "@") \/ ~HasChar(email, ".") \/ Len(email) < 5

\* C11 (as claimed): in both subscribe handlers an email whose normalized form
\* lacks '@', lacks '.', or is shorter than 5 characters is rejected as
\* invalid (status 400), and the rejected call inserts no subscriber record
\* and attempts no email send.
C11_MalformedRejected ==
  \A c \in Slots :
    (calls[c].kind = "subscribe" /\ Malformed(calls[c].email)) =>
      /\ calls[c].pc = "done"
      /\ calls[c].res.status = 400 /\ ~calls[c].res.success
      /\ ~calls[c].inserted
      /\ calls[c].mails = <<>>

(* ================= properties of the notification and the post ========= *)
\* The truth value a sendFull input stands for
SubmittedTruth(v) == v \in {JsTrue, "1", "true"}

Contains(body, part) == \E k \in DOMAIN body : body[k] = part

Null == "null"

\* C12 (as claimed): for a publish call that reaches fan-out with a content
\* and a different excerpt: when sendFull is true every subscriber
\* notification contains the content; when sendFull is false every one
\* contains the excerpt and not the content; all notifications of the call
\* carry the same body.
C12_BodyFollowsSendFull ==
  \A c \in Slots :
    (calls[c].kind = "publish" /\ calls[c].req.content = "FULL"
       /\ calls[c].req.excerpt = "EXC") =>
      LET call == calls[c]
          sent == PostMails(call)
      IN \A k \in 1..Len(sent) :
           /\ SubmittedTruth(call.req.sendFull) => Contains(sent[k].body, "FULL")
           /\ ~SubmittedTruth(call.req.sendFull) =>
                (Contains(sent[k].body, "EXC") /\ ~Contains(sent[k].body, "FULL"))
           /\ sent[k].body = sent[1].body

\* C13 (as claimed): the listing returned after an accepted publish call
\* holds that call's post with the title and postUrl submitted, a non-null
\* publishedAt, and a sendFull flag equal to the truth value submitted
\* (true, "1", "true": true; false, "0", "false", absent: false).
C13_PublishListRoundTrip ==
  \A c, d \in Slots :
    (calls[c].kind = "posts" /\ calls[c].pc = "done" /\ calls[c].res.status = 200
       /\ calls[d].kind = "publish" /\ calls[d].postIds # <<>>
       /\ calls[d].postIds[1] <= Len(calls[c].res.posts)) =>
      LET list == calls[c].res.posts
          post == list[Len(list) + 1 - calls[d].postIds[1]]
      IN /\ post.title = calls[d].req.title
         /\ post.postUrl = calls[d].req.postUrl
         /\ post.publishedAt # Null
         /\ post.sendFull = SubmittedTruth(calls[d].req.sendFull)

(* ================= properties of the order of the sends ================ *)
IsPublishedMail(m) == m.type = "published"
IsOkMail(m) == m.st = "ok"

\* The administrator notifications of a publish call
PublishedMails(call) == SelectSeq(call.mails, IsPublishedMail)

\* C14: a publish call that stored its post sends exactly one administrator
\* notification, as its last mail, after a send attempt for every subscriber
\* of the snapshot has returned; the notification carries the final counts
\* of the call: sent = the sends that succeeded, total = the size of the
\* snapshot and, in part_000, failed = the sends that failed, the same
\* numbers as the response. A publish call that stored no post (rejected, or
\* failed at the store) sends no administrator notification.
C14_OneAdminNotification ==
  \A c \in Slots :
    calls[c].kind = "publish" =>
      LET call == calls[c]
          admin == PublishedMails(call)
          sent == PostMails(call)
      IN /\ Len(admin) <= 1
         /\ call.postIds = <<>> => admin = <<>>
         /\ (call.postIds # <<>> /\ call.pc = "done") => Len(admin) = 1
         /\ admin # <<>> =>
              /\ IsPublishedMail(call.mails[Len(call.mails)])
              /\ Len(sent) = Len(call.subs)
              /\ \A k \in 1..Len(sent) : sent[k].st # "pending"
              /\ admin[1].to = ADMIN_EMAIL
              /\ admin[1].counts.sent = Len(SelectSeq(sent, IsOkMail))
              /\ admin[1].counts.total = Len(call.subs)
              /\ impl = "part000" =>
                   admin[1].counts.failed = Len(SelectSeq(sent, IsFailedMail))
              /\ call.pc = "done" =>
                   /\ admin[1].counts.sent = call.res.sent
                   /\ impl = "part000" =>
                        /\ admin[1].counts.failed = call.res.failed
                        /\ admin[1].counts.total = call.res.total

C14_Witness ==
  \E c \in Slots :
    /\ impl = "part000" /\ calls[c].kind = "publish" /\ calls[c].pc = "done"
    /\ Len(calls[c].subs) = 3 /\ Len(calls[c].mails) = 4
    /\ calls[c].mails[2].st = "fail"
    /\ calls[c].mails[4].type = "published"
    /\ calls[c].mails[4].counts = [sent |-> 2, failed |-> 1, total |-> 3]

\* C15: within one publish call at most one send is in flight at any time;
\* the notification for the first subscriber is handed to the transport when
\* Post.create has returned, and the one for each further subscriber only in
\* the step in which the pacing delay elapses, after the send before it has
\* returned.
C15_Step(c) ==
  LET old == calls[c]
      new == calls'[c]
  IN new.kind = "publish" =>
       /\ Cardinality(Pending(new.mails)) <= 1
       /\ Len(PostMails(new)) > Len(PostMails(old)) =>
            /\ Len(PostMails(new)) = Len(PostMails(old)) + 1
            /\ Pending(old.mails) = {}
            /\ IF PostMails(old) = <<>>
                 THEN old.pc = "create"
                 ELSE old.pc = "delay" /\ old.mails[Len(old.mails)].st # "pending"

C15_SequentialSends == [][\A c \in Slots : C15_Step(c)]_vars

C15_Witness ==
  \E c \in Slots :
    /\ calls[c].kind = "publish" /\ calls[c].pc = "sending"
    /\ Len(calls[c].subs) = 3 /\ calls[c].idx = 3
    /\ calls[c].mails[1].st = "fail" /\ calls[c].mails[2].st = "ok"
    /\ calls[c].mails[3].st = "pending"

(* ============== properties of the snapshot and of the mail sender ====== *)
Running(call) == call.pc \notin Finished

\* C16: the subscribers a publish call sends to are the records that were in
\* the store in the step in which the call read its snapshot, in every
\* interleaving with subscribe and unsubscribe calls: the snapshot is the
\* store of that moment and never changes afterwards, every send goes to the
\* next element of the snapshot, once the loop has ended each element got
\* exactly one send, and no step of a publish call changes the subscriber
\* collection.
C16_Step(c) ==
  LET old == calls[c]
      new == calls'[c]
  IN /\ (new.kind = "publish" /\ new # old) => subscribers' = subscribers
     /\ (old.kind = "publish" /\ Running(old)) =>
          /\ (old.pc = "find" /\ new.pc = "create") => new.subs = subscribers
          /\ old.pc # "find" => new.subs = old.subs
     /\ (new.kind = "publish" /\ new.postIds # <<>>) =>
          /\ Len(PostMails(new)) = new.idx
          /\ \A k \in 1..Len(PostMails(new)) :
               PostMails(new)[k].to = new.subs[k].email
          /\ new.pc \in {"admin", "done"} => new.idx = Len(new.subs)

C16_SnapshotRecipients == [][\A c \in Slots : C16_Step(c)]_vars

C16_Witness ==
  \E c \in Slots :
    /\ calls[c].kind = "publish" /\ calls[c].pc = "done"
    /\ calls[c].subs = <<[email |-> <<"a", "@", "b", ".", "c", "o", "m">>]>>
    /\ subscribers = <<[email |-> <<"x", "@", "y", ".", "i", "o">>]>>
    /\ Len(PostMails(calls[c])) = 1
    /\ PostMails(calls[c])[1].to = <<"a", "@", "b", ".", "c", "o", "m">>

\* C17: safeSend returns true exactly when the transport accepted the mail
\* and false when the transport threw, and the error goes no further: a
\* publish or subscribe call none of whose store operations failed never
\* ends in a server error and never stays unanswered, whatever the
\* transport did with its mails.
C17_SafeSendNeverRaises ==
  \A c \in Slots :
    /\ \A k \in 1..Len(calls[c].mails) :
         LET m == calls[c].mails[k]
         IN /\ m.st = "ok" <=> m.transport = "accepted"
            /\ m.st = "fail" <=> m.transport = "threw"
            /\ m.st = "pending" <=> m.transport = "none"
    /\ (calls[c].kind \in {"publish", "subscribe"} /\ ~calls[c].storeFailed) =>
         /\ calls[c].pc # "hung"
         /\ calls[c].pc = "done" => calls[c].res.status = 200

C17_Witness ==
  \E c, d \in Slots :
    /\ calls[c].kind = "publish" /\ calls[c].pc = "done"
    /\ calls[c].res.status = 200
    /\ Len(calls[c].mails) = 2
    /\ \A k \in 1..2 : calls[c].mails[k].st = "fail" /\ calls[c].mails[k].transport = "threw"
    /\ calls[d].kind = "subscribe" /\ calls[d].pc = "done"
    /\ calls[d].res.status = 200 /\ calls[d].inserted
    /\ Len(calls[d].mails) = 2
    /\ \A k \in 1..2 : calls[d].mails[k].st = "fail" /\ calls[d].mails[k].transport = "threw"

(* ================== properties of rejection and of errors ============== *)
\* C18 (as claimed): a publish call whose secret does not match has no side
\* effect at all: it stores no uploaded attachment, creates no post, does
\* not read or change the subscriber collection and sends no mail.
C18_Step(c) ==
  LET old == calls[c]
      new == calls'[c]
  IN (new.kind = "publish" /\ new # old /\ ~SecretMatches(new.req)) =>
       /\ uploads' = uploads
       /\ posts' = posts
       /\ subscribers' = subscribers
       /\ new.subs = <<>>
       /\ new.mails = <<>>

C18_MismatchNoSideEffect == [][\A c \in Slots : C18_Step(c)]_vars

\* C19 (as claimed): a call that met an unexpected error is answered with a
\* generic server error (status 500) that carries no internal error detail
\* in any field of the response.
C19_NoErrorDetail ==
  \A c \in Slots :
    (calls[c].pc = "done" /\ calls[c].storeFailed) =>
      /\ calls[c].res.status = 500
      /\ calls[c].res.error = ""

(* ===================== properties of a new subscription ================ *)
IsWelcomeFor(m, call) == m.type = "welcome" /\ m.to = call.email
IsNewSubscriberMail(m) == m.type = "newsub" /\ m.to = ADMIN_EMAIL

Created(call) == call.kind = "subscribe" /\ call.pc = "done" /\ ReportsCreated(call)

\* C20 (as claimed): a subscribe call that ends in Created has inserted its
\* record, attempted exactly one welcome mail and one administrator
\* notification, and the total in that notification counts the new record:
\* it is at least 1.
C20_CountAtLeastOne ==
  \A c \in Slots :
    Created(calls[c]) =>
      /\ calls[c].inserted
      /\ Len(calls[c].mails) = 2
      /\ IsWelcomeFor(calls[c].mails[1], calls[c])
      /\ IsNewSubscriberMail(calls[c].mails[2])
      /\ calls[c].mails[2].counts.total >= 1

\* C20 (amended): a subscribe call that ends in Created has inserted its
\* record first and then attempted exactly one welcome mail to the new
\* subscriber and one administrator notification; the total in the
\* notification is the size of the collection read after the insert, so it
\* counts the new record (it is at least 1) unless an unsubscribe call
\* deleted that record between the insert and the read. A send that fails
\* neither changes the Created response nor removes the inserted record.
C20_Step(c) ==
  LET old == calls[c]
      new == calls'[c]
  IN new.kind = "subscribe" =>
       /\ new.mails # <<>> => new.inserted
       /\ Created(new) =>
            /\ new.inserted
            /\ Len(new.mails) = 2
            /\ IsWelcomeFor(new.mails[1], new)
            /\ IsNewSubscriberMail(new.mails[2])
            /\ ~new.removed => HasRecord(subscribers', new.email)
       /\ (old.kind = "subscribe" /\ old.pc = "count"
             /\ Len(new.mails) > Len(old.mails)) =>
            /\ new.mails[2].counts.total = Len(subscribers)
            /\ ~old.removed =>
                 (new.mails[2].counts.total >= 1 /\ HasRecord(subscribers, old.email))
       /\ (Created(old) /\ Len(new.mails) = 2 /\ new.mails # old.mails) =>
            (new.res = old.res /\ subscribers' = subscribers)

C20_CreatedThenNotified == [][\A c \in Slots : C20_Step(c)]_vars

C20_Witness ==
  \E c \in Slots :
    /\ Created(calls[c]) /\ calls[c].inserted /\ ~calls[c].removed
    /\ calls[c].mails[1].st = "fail" /\ calls[c].mails[2].st = "fail"
    /\ calls[c].mails[2].counts.total = 2
    /\ Len(subscribers) = 2
    /\ HasRecord(subscribers, calls[c].email)

(* ====================== properties of the post store =================== *)
\* The calls whose step stored a post
Persisters == {c \in Slots : calls[c].kind = "publish" /\ calls[c].pc = "create"
                               /\ calls'[c].postIds # calls[c].postIds}

\* C21: the post store changes only by the step in which one publish call's
\* Post.create returns, which appends exactly one post holding that call's
\* title and postUrl and leaves every stored post as it was; a publish call
\* stores at most one post and reports success exactly when it stored one,
\* so stored posts and successful publish calls correspond one to one; no
\* step of a subscribe, unsubscribe, check or listing call changes the post
\* store.
C21_Step ==
  /\ posts' # posts =>
       /\ Len(posts') = Len(posts) + 1
       /\ SubSeq(posts', 1, Len(posts)) = posts
       /\ Cardinality(Persisters) = 1
       /\ \A c \in Persisters :
            /\ calls'[c].postIds = <<Len(posts')>>
            /\ posts'[Len(posts')].title = calls[c].req.title
            /\ posts'[Len(posts')].postUrl = calls[c].req.postUrl
  /\ posts' = posts => Persisters = {}
  /\ \A c \in Slots :
       /\ (calls'[c] # calls[c] /\ calls'[c].kind # "publish") => posts' = posts
       /\ calls'[c].kind = "publish" =>
            /\ Len(calls'[c].postIds) <= 1
            /\ calls'[c].pc = "done" =>
                 (calls'[c].res.success <=> calls'[c].postIds # <<>>)

C21_PostsOnlyByPublish == [][C21_Step]_vars

C21_Witness ==
  \E c, d \in Slots :
    /\ calls[c].kind = "publish" /\ calls[c].pc = "done" /\ calls[c].res.success
    /\ calls[c].postIds = <<1>>
    /\ calls[d].kind = "posts" /\ calls[d].pc = "done"
    /\ Len(calls[d].res.posts) = 1
    /\ Len(posts) = 1 /\ Len(subscribers) = 2

(* ================= properties of the stages of a publish call ========== *)
IsPrefix(s, t) == Len(s) <= Len(t) /\ \A k \in 1..Len(s) : s[k] = t[k]

Last(s) == s[Len(s)]
Front(s) == SubSeq(s, 1, Len(s) - 1)

ClaimedOrder ==
  <<"Validating", "Authorizing", "Persisting", "Fanning-Out", "Summarizing", "Done">>

\* C22 (as claimed): a publish call passes through Validating, Authorizing,
\* Persisting, Fanning-Out, Summarizing, Done in exactly that order; Rejected
\* is terminal and reached only from Validating or Authorizing.
C22_ClaimedStageOrder ==
  \A c \in Slots :
    calls[c].kind = "publish" =>
      LET st == calls[c].stages
      IN \/ IsPrefix(st, ClaimedOrder)
         \/ /\ Len(st) \in 2..3 /\ Last(st) = "Rejected"
            /\ IsPrefix(Front(st), ClaimedOrder)

HandlerOrder ==
  <<"Authorizing", "Validating", "Snapshotting", "Persisting", "Fanning-Out",
    "Summarizing", "Done">>

Terminal == {"Rejected", "Failed", "Done"}

\* C22 (amended): a publish call passes through Authorizing, Validating,
\* the read of the subscriber snapshot, Persisting, Fanning-Out, Summarizing,
\* Done in exactly that order, never skipping, repeating or going back to a
\* stage; Rejected is terminal, is reached only from Authorizing (401) or
\* Validating (400), and after it no later stage is entered (no snapshot, no
\* post, no mail); a call whose snapshot read or Post insert fails ends in a
\* server error, which is terminal as well.
C22_Step(c) ==
  LET old == calls[c]
      new == calls'[c]
      st == new.stages
  IN new.kind = "publish" =>
       /\ st # <<>>
       /\ \/ IsPrefix(st, HandlerOrder)
          \/ /\ Len(st) \in 2..3 /\ Last(st) = "Rejected"
             /\ IsPrefix(Front(st), HandlerOrder)
          \/ /\ Len(st) \in 4..5 /\ Last(st) = "Failed"
             /\ IsPrefix(Front(st), HandlerOrder)
       /\ (Last(st) \in Terminal) <=> new.pc = "done"
       /\ Last(st) = "Rejected" =>
            /\ new.res.status = (IF Len(st) = 2 THEN 401 ELSE 400)
            /\ new.subs = <<>> /\ new.postIds = <<>> /\ new.mails = <<>>
       /\ Last(st) = "Failed" => (new.res.status = 500 /\ new.mails = <<>>)
       /\ Last(st) = "Done" => new.res.status = 200
       /\ (old.kind = "publish" /\ Running(old)) =>
            (IsPrefix(old.stages, st) /\ Len(st) <= Len(old.stages) + 2)
       /\ (old.kind = "publish" /\ ~Running(old) /\ old.pc = "done") =>
            (new = old \/ Len(st) \in 2..3)

C22_StageOrder == [][\A c \in Slots : C22_Step(c)]_vars

C22_Witness ==
  \E c \in Slots :
    /\ calls[c].kind = "publish" /\ calls[c].pc = "done"
    /\ calls[c].stages = HandlerOrder
    /\ Len(calls[c].subs) = 3 /\ Len(calls[c].mails) = 4
    /\ calls[c].res.status = 200

\* C23 (as claimed): the subscriber list is loaded after the post has been
\* stored: every subscriber in the store in the step in which the post is
\* persisted is in the call's list, and a failed read of the list does not
\* keep the post from being persisted: an authorized, valid call that ended
\* without a post can only have failed at the insert itself.
C23_Step(c) ==
  LET old == calls[c]
      new == calls'[c]
  IN new.kind = "publish" =>
       /\ (old.kind = "publish" /\ old.pc = "create" /\ new.postIds # <<>>) =>
            \A k \in 1..Len(subscribers) :
              HasRecord(new.subs, subscribers[k].email)
       /\ (new.pc = "done" /\ SecretMatches(new.req) /\ FieldsPresent(new.req)
             /\ new.postIds = <<>>) =>
            Contains(new.stages, "Persisting")

C23_ListLoadedAfterPersist == [][\A c \in Slots : C23_Step(c)]_vars

(* ====================== properties of termination ====================== *)
InFanOut(call) ==
  call.kind = "publish" /\ call.pc \in {"sending", "delay", "admin"}

\* C24: provided every send returns and every pacing timer fires, a publish
\* call that has started its fan-out reaches Done and answers, having made
\* exactly one send attempt per subscriber of its snapshot, whatever the
\* sends return and whatever subscribe and unsubscribe calls run meanwhile.
C24_FanOutTerminates ==
  \A c \in Slots :
    InFanOut(calls[c]) ~>
      (/\ calls[c].kind = "publish" /\ calls[c].pc = "done"
       /\ calls[c].res.status = 200
       /\ Len(PostMails(calls[c])) = Len(calls[c].subs))

C24_Witness ==
  \E c \in Slots :
    /\ calls[c].kind = "publish" /\ calls[c].pc = "done"
    /\ calls[c].res.status = 200
    /\ Len(calls[c].subs) = 2 /\ Len(PostMails(calls[c])) = 2
    /\ \A k \in 1..2 : calls[c].mails[k].st = "fail"
    /\ subscribers = <<>>

(* =================== properties of the subscribe handler =============== *)
\* C25 (as claimed): in both subscribe handlers the response does not wait
\* for the welcome and administrator mails: no step of the handler is the
\* return of one of its sends, so the handler goes on to the Created
\* response while the sends are in flight, however long they take.
C25_Step(c) ==
  LET old == calls[c]
      new == calls'[c]
  IN (old.kind = "subscribe" /\ Running(old) /\ new.pc # old.pc) =>
       \A k \in 1..Len(old.mails) : new.mails[k].st = old.mails[k].st

C25_ResponseDoesNotWait == [][\A c \in Slots : C25_Step(c)]_vars

\* C28 (as claimed): a part_000 subscribe call answered with a server error
\* has inserted no record and has handed no mail to the transport.
C28_ErrorMeansNoEffect ==
  \A c \in Slots :
    (impl = "part000" /\ calls[c].kind = "subscribe" /\ calls[c].pc = "done"
       /\ calls[c].res.status = 500) =>
      /\ ~calls[c].inserted
      /\ calls[c].mails = <<>>

(* ===================== properties of authorization ===================== *)
\* The secret a request supplies: the header, or the body field when the
\* request has no header value
ClaimedSecret(req) ==
  IF req.header \in {Undefined, ""} THEN req.secret ELSE req.header

\* C27 (as claimed): in both handlers a publish call is authorized exactly
\* when the header secret, or the body secret when no header is supplied,
\* equals the configured secret; all other calls are answered 401.
C27_AuthorizedExactlyWhen ==
  \A c \in Slots :
    (calls[c].kind = "publish" /\ calls[c].pc = "done") =>
      (calls[c].res.status = 401 <=> ClaimedSecret(calls[c].req) # PUBLISH_SECRET)

(* ================= properties of concurrent publish calls ============== *)
OkTo(call) ==
  LET f == SelectSeq(PostMails(call), IsOkMail)
  IN [k \in 1..Len(f) |-> f[k].to]

\* C26: publish calls running concurrently do not interfere: each call that
\* stored a post stored exactly one, its own (title and postUrl) and no
\* other call's; its send attempts are the subscribers of its own snapshot,
\* in order, one each; its sent count is the number of its own sends that
\* succeeded and (part_000) its failed list the recipients of its own failed
\* sends, which is what its response and its administrator notification
\* report.
C26_NoInterference ==
  \A c \in Slots :
    (calls[c].kind = "publish" /\ calls[c].postIds # <<>>) =>
      LET call == calls[c]
          sent == PostMails(call)
      IN /\ Len(call.postIds) = 1
         /\ call.postIds[1] \in 1..Len(posts)
         /\ posts[call.postIds[1]].title = call.req.title
         /\ posts[call.postIds[1]].postUrl = call.req.postUrl
         /\ \A d \in Slots \ {c} :
              (calls[d].kind = "publish" /\ calls[d].postIds # <<>>) =>
                calls[d].postIds[1] # call.postIds[1]
         /\ Len(sent) = call.idx
         /\ \A k \in 1..Len(sent) : sent[k].to = call.subs[k].email
         /\ call.sentCount = Len(OkTo(call))
         /\ impl = "part000" => call.failedEmails = FailedTo(call)
         /\ call.pc = "done" =>
              /\ Len(sent) = Len(call.subs)
              /\ call.res.sent = Len(OkTo(call))
              /\ impl = "part000" =>
                   (call.res.failed = Len(FailedTo(call))
                      /\ call.res.failedEmails = FailedTo(call))
              /\ PublishedMails(call)[1].counts.sent = Len(OkTo(call))

C26_Witness ==
  \E c, d \in Slots :
    /\ c # d /\ impl = "part000"
    /\ calls[c].kind = "publish" /\ calls[c].pc = "done"
    /\ calls[d].kind = "publish" /\ calls[d].pc = "done"
    /\ calls[c].postIds = <<2>> /\ calls[d].postIds = <<1>>
    /\ Len(calls[c].subs) = 2 /\ calls[d].subs = calls[c].subs
    /\ calls[c].res.sent = 2 /\ calls[c].res.failed = 0
    /\ calls[d].res.sent = 0 /\ calls[d].res.failed = 2

=============================================================================
